---- MODULE Spec2Model ----
(***************************************************************************)
(* State-machine model of SimplifiedSchoolScheduler (src/main.py): the     *)
(* constructor's subject expansion and per-group index, and the            *)
(* generate_schedule allocator walked one loop step at a time.             *)
(*                                                                         *)
(* Python dicts keep insertion order, so a dict whose iteration order the  *)
(* code relies on is a sequence of [k, v] entries (Dict* operators).       *)
(* ceil(a / b) is computed by Python on floats; for the magnitudes of the  *)
(* model (and any |a|, |b| < 2^53) it equals the exact integer ceiling.    *)
(***************************************************************************)
EXTENDS Integers, Sequences, FiniteSets, TLC

----------------------------------------------------------------------------
(* Bounds of the explored inputs *)

MaxWeeks == 2
MaxHours == 3

(* Program constants *)

DaysPerWeek == 5
DefaultWeeks == 18

----------------------------------------------------------------------------
(* Generic helpers: Python built-ins used by the code *)

Max(a, b) == IF a >= b THEN a ELSE b

Min(a, b) == IF a <= b THEN a ELSE b

\* math.ceil(a / b) for b # 0 (\div rounds towards minus infinity)
Ceil(a, b) == -((-a) \div b)

\* x in list
InList(x, list) == \E i \in DOMAIN list : list[i] = x

DictHas(d, key) == \E i \in DOMAIN d : d[i].k = key

DictGet(d, key) == d[CHOOSE i \in DOMAIN d : d[i].k = key].v

\* d[key] = val: a new key is appended, an existing key keeps its position
DictPut(d, key, val) ==
    IF DictHas(d, key)
    THEN [i \in DOMAIN d |-> IF d[i].k = key THEN [k |-> key, v |-> val] ELSE d[i]]
    ELSE Append(d, [k |-> key, v |-> val])

\* del d[key]
DictDel(d, key) == SelectSeq(d, LAMBDA e : e.k # key)

----------------------------------------------------------------------------
(* Constructor: subject expansion and per-group index *)

\* the Subject records one Group contributes, in the specialty's dict order
SubjectsOfGroup(group) ==
    LET items == group.specialty.subjects_per_semester
        F[i \in 0..Len(items)] ==
            IF i = 0 THEN <<>>
            ELSE IF group.current_semester \in DOMAIN items[i].v
                 THEN Append(F[i-1],
                             [name |-> items[i].k,
                              total_hours |-> items[i].v[group.current_semester],
                              groups |-> <<group.name>>,
                              semester |-> group.current_semester])
                 ELSE F[i-1]
    IN F[Len(items)]

RECURSIVE GenerateSubjects(_)
GenerateSubjects(gs) ==
    IF gs = <<>> THEN <<>>
    ELSE SubjectsOfGroup(Head(gs)) \o GenerateSubjects(Tail(gs))

\* group_subjects[group].append(subject) for every group of subject.groups
IndexSubject(index, subject) ==
    LET F[i \in 0..Len(subject.groups)] ==
            IF i = 0 THEN index
            ELSE LET g == subject.groups[i]
                     old == IF DictHas(F[i-1], g) THEN DictGet(F[i-1], g) ELSE <<>>
                 IN DictPut(F[i-1], g, Append(old, subject))
    IN F[Len(subject.groups)]

GroupSubjects(subjs) ==
    LET F[i \in 0..Len(subjs)] ==
            IF i = 0 THEN <<>> ELSE IndexSubject(F[i-1], subjs[i])
    IN F[Len(subjs)]

----------------------------------------------------------------------------
(* Inputs explored: curricula, groups, teachers, blackout days, term length *)

Specialty(h) ==
    [name |-> "IT",
     subjects_per_semester |->
        << [k |-> "Math", v |-> (1 :> h @@ 2 :> 1)],
           [k |-> "Prog", v |-> (1 :> 2)] >>]

\* two groups in semester 1, one name reused in semester 2, and a group whose
\* semester has no subject at all
GroupPool(h) ==
    << [name |-> "g1", specialty |-> Specialty(h), current_semester |-> 1],
       [name |-> "g2", specialty |-> Specialty(h), current_semester |-> 1],
       [name |-> "g2", specialty |-> Specialty(h), current_semester |-> 2],
       [name |-> "g1", specialty |-> Specialty(h), current_semester |-> 3] >>

\* no group, one group, two groups (distinct names, a repeated name, one
\* without subjects)
GroupLists(h) ==
    LET p == GroupPool(h)
    IN { <<>>, <<p[1]>>, <<p[3]>>, <<p[4]>>,
         <<p[1], p[2]>>, <<p[1], p[3]>>, <<p[2], p[3]>>, <<p[4], p[2]>> }

TeacherPool ==
    { [name |-> "tA", subject |-> "Math", groups |-> <<"g1", "g2">>, preferred_days |-> <<>>],
      [name |-> "tB", subject |-> "Math", groups |-> <<"g1">>, preferred_days |-> <<0>>],
      [name |-> "tC", subject |-> "Prog", groups |-> <<"g2", "g1">>, preferred_days |-> <<1, 3>>],
      [name |-> "tD", subject |-> "Math", groups |-> <<"g2">>, preferred_days |-> <<5>>] }

\* no teacher, one teacher, two different teachers: two of the same subject in
\* either order, two of different subjects with the "Math" teacher first
TeacherLists ==
    {<<>>} \cup {<<t>> : t \in TeacherPool}
           \cup {<<p[1], p[2]>> :
                    p \in {q \in TeacherPool \X TeacherPool :
                              q[1] # q[2] /\ q[1].subject = "Math"}}

\* weekdays a blackout day falls on: the day one teacher prefers, a day another
\* prefers, a day nobody prefers
PracticeWeekdays == {0, 1, 2}

\* blackout lists for a term of w weeks: none, one day of the first or of the
\* last week, or the five weekdays of the first week; only membership is ever
\* asked of practice_days, so the list is kept as the set of its pairs
PracticeSets(w) ==
    {{}} \cup {{c} : c \in ({0, w-1} \cap (0..(w-1))) \X PracticeWeekdays}
         \cup {{x} \X (0..(DaysPerWeek-1)) : x \in {0} \cap (0..(w-1))}

BoundedInputs ==
    UNION {
        [teachers : TeacherLists,
         groups : GroupLists(h),
         practice_days : PracticeSets(w),
         weeks_per_semester : {w}] : h \in (-1)..MaxHours, w \in (-1)..MaxWeeks }

\* the data of main(), lines 151-176, run with the default term length
ExampleSpecialty ==
    [name |-> "IT",
     subjects_per_semester |->
        << [k |-> "Math", v |-> (1 :> 72 @@ 2 :> 54)],
           [k |-> "Prog", v |-> (1 :> 108 @@ 2 :> 90)],
           [k |-> "Eng", v |-> (1 :> 36 @@ 2 :> 36)] >>]

ExampleInput ==
    [teachers |->
        << [name |-> "Ivanov", subject |-> "Math", groups |-> <<"IT-21", "IT-22">>,
            preferred_days |-> <<0, 2, 4>>],
           [name |-> "Petrova", subject |-> "Prog", groups |-> <<"IT-21", "IT-22">>,
            preferred_days |-> <<1, 3>>],
           [name |-> "Smirnov", subject |-> "Eng", groups |-> <<"IT-21", "IT-22">>,
            preferred_days |-> <<0, 2>>] >>,
     groups |->
        << [name |-> "IT-21", specialty |-> ExampleSpecialty, current_semester |-> 1],
           [name |-> "IT-22", specialty |-> ExampleSpecialty, current_semester |-> 2] >>,
     practice_days |-> {<<5, 0>>, <<10, 3>>},
     weeks_per_semester |-> DefaultWeeks]

\* one subject of 72 hours, one teacher free on every weekday, no blackout day,
\* the default term length
ScenarioInput ==
    [teachers |->
        << [name |-> "tA", subject |-> "Math", groups |-> <<"g1">>,
            preferred_days |-> <<>>] >>,
     groups |->
        << [name |-> "g1",
            specialty |-> [name |-> "IT",
                           subjects_per_semester |-> << [k |-> "Math", v |-> (1 :> 72)] >>],
            current_semester |-> 1] >>,
     practice_days |-> {},
     weeks_per_semester |-> DefaultWeeks]

Inputs == BoundedInputs \cup {ExampleInput, ScenarioInput}

----------------------------------------------------------------------------
(* State *)

VARIABLES
    teachers, groups, practice_days, weeks_per_semester,  \* constructor arguments
    subjects, group_subjects,                             \* built by __init__
    pc,                    \* position in generate_schedule
    schedule,              \* week -> day -> group -> list of lesson records
    group_subject_hours,   \* dict group -> dict subject -> working-state
    week, day,             \* loop variables of lines 89 and 92
    day_schedule,          \* line 96
    gi, group,             \* position and key of the loop of line 98
    day_group_subjects,    \* line 99
    items, si,             \* snapshot list(subjects_info.items()) and position in it
    subject_name, subject_data,   \* loop variables of line 101
    lesson_hours,          \* line 119
    emitted                \* history: every lesson appended, with its lesson_hours

vars == <<teachers, groups, practice_days, weeks_per_semester, subjects,
          group_subjects, pc, schedule, group_subject_hours, week, day,
          day_schedule, gi, group, day_group_subjects, items, si,
          subject_name, subject_data, lesson_hours, emitted>>

inputVars == <<teachers, groups, practice_days, weeks_per_semester, subjects,
               group_subjects>>

None == "none"

EmptyMap == [x \in {} |-> x]

Init ==
    \E inp \in Inputs :
        /\ teachers = inp.teachers
        /\ groups = inp.groups
        /\ practice_days = inp.practice_days
        /\ weeks_per_semester = inp.weeks_per_semester
        /\ subjects = GenerateSubjects(inp.groups)
        /\ group_subjects = GroupSubjects(GenerateSubjects(inp.groups))
        /\ pc = "start"
        /\ schedule = EmptyMap
        /\ group_subject_hours = <<>>
        /\ week = 0
        /\ day = 0
        /\ day_schedule = EmptyMap
        /\ gi = 0
        /\ group = None
        /\ day_group_subjects = <<>>
        /\ items = <<>>
        /\ si = 0
        /\ subject_name = None
        /\ subject_data = None
        /\ lesson_hours = 0
        /\ emitted = <<>>

----------------------------------------------------------------------------
(* generate_schedule: pure parts *)

\* fault variant: the blackout list is ignored
AlwaysValidDay(w, d) == TRUE

\* line 72
IsValidDay(w, d) == <<w, d>> \notin practice_days

\* fault variant: the quotient is rounded down
HoursPerWeekFloor(total, weeks) == Max(1, total \div weeks)

\* fault variant: the floor of 1 is taken as a cap
HoursPerWeekCapped(total, weeks) == Min(1, Ceil(total, weeks))

\* line 81, weeks # 0
HoursPerWeek(total, weeks) == Max(1, Ceil(total, weeks))

\* lines 82-87
WorkingState(subject, weeks) ==
    [total_hours |-> subject.total_hours,
     hours_per_week |-> HoursPerWeek(subject.total_hours, weeks),
     remaining_hours |-> subject.total_hours,
     semester |-> subject.semester]

\* fault variant: one entry per Subject record, a repeated name kept twice
SubjectHoursKeepAll(subjs, weeks) ==
    [i \in DOMAIN subjs |-> [k |-> subjs[i].name, v |-> WorkingState(subjs[i], weeks)]]

\* lines 79-87 for one group: a later Subject of the same name overwrites
SubjectHours(subjs, weeks) ==
    LET F[i \in 0..Len(subjs)] ==
            IF i = 0 THEN <<>>
            ELSE DictPut(F[i-1], subjs[i].name, WorkingState(subjs[i], weeks))
    IN F[Len(subjs)]

\* lines 77-87
BuildHours(index, weeks) ==
    LET F[i \in 0..Len(index)] ==
            IF i = 0 THEN <<>>
            ELSE DictPut(F[i-1], index[i].k, SubjectHours(index[i].v, weeks))
    IN F[Len(index)]

\* fault variant: preferred_days is not consulted
EligibleAnyDay(t, subj, grp, d) ==
    /\ t.subject = subj
    /\ InList(grp, t.groups)

\* lines 105-107
Eligible(t, subj, grp, d) ==
    /\ t.subject = subj
    /\ InList(grp, t.groups)
    /\ (t.preferred_days = <<>> \/ InList(d, t.preferred_days))

\* lines 103-108
AvailableTeachers(subj, grp, d) ==
    SelectSeq(teachers, LAMBDA t : Eligible(t, subj, grp, d))

\* fault variant: the last candidate is taken
LastTeacher(available) == available[Len(available)]

\* line 111
FirstTeacher(available) == available[1]

\* fault variant: a subject with nothing left is still examined
HasRemainingOrZero(data) == data.remaining_hours >= 0

\* line 102
HasRemaining(data) == data.remaining_hours > 0

\* fault variant: the lesson is not capped by what remains
LessonHoursNoCap(data) == data.hours_per_week

\* lines 119-122
LessonHours(data) == Min(data.hours_per_week, data.remaining_hours)

\* fault variant: a subject is dropped only below zero
FinishedStrict(data) == data.remaining_hours < 0

\* fault variant: a subject is dropped with one hour left
FinishedEarly(data) == data.remaining_hours <= 1

\* line 125
Finished(data) == data.remaining_hours <= 0

----------------------------------------------------------------------------
(* generate_schedule: steps *)

\* lines 77-87 run to the end
SetupHours ==
    /\ pc = "start"
    /\ ~(weeks_per_semester = 0 /\ group_subjects # <<>>)
    /\ group_subject_hours' = BuildHours(group_subjects, weeks_per_semester)
    /\ pc' = "week"
    /\ UNCHANGED <<inputVars, schedule, week, day, day_schedule, gi, group,
                   day_group_subjects, items, si, subject_name, subject_data,
                   lesson_hours, emitted>>

\* line 81 divides by weeks_per_semester = 0 for the first subject: ZeroDivisionError
RaiseZeroDivision ==
    /\ pc = "start"
    /\ weeks_per_semester = 0 /\ group_subjects # <<>>
    /\ group_subject_hours' = <<[k |-> group_subjects[1].k, v |-> <<>>]>>
    /\ pc' = "raised"
    /\ UNCHANGED <<inputVars, schedule, week, day, day_schedule, gi, group,
                   day_group_subjects, items, si, subject_name, subject_data,
                   lesson_hours, emitted>>

\* lines 89-90
NextWeek ==
    /\ pc = "week"
    /\ week < weeks_per_semester
    /\ schedule' = (week :> EmptyMap) @@ schedule
    /\ day' = 0
    /\ pc' = "day"
    /\ UNCHANGED <<inputVars, group_subject_hours, week, day_schedule, gi, group,
                   day_group_subjects, items, si, subject_name, subject_data,
                   lesson_hours, emitted>>

\* line 132
Return ==
    /\ pc = "week"
    /\ week >= weeks_per_semester
    /\ pc' = "done"
    /\ UNCHANGED <<inputVars, schedule, group_subject_hours, week, day,
                   day_schedule, gi, group, day_group_subjects, items, si,
                   subject_name, subject_data, lesson_hours, emitted>>

\* the next iteration of line 92, or of line 89 after the last weekday
AdvanceDay ==
    IF day + 1 < DaysPerWeek
    THEN /\ day' = day + 1
         /\ pc' = "day"
         /\ week' = week
    ELSE /\ day' = day
         /\ pc' = "week"
         /\ week' = week + 1

\* lines 93-94
SkipDay ==
    /\ pc = "day"
    /\ ~IsValidDay(week, day)
    /\ AdvanceDay
    /\ UNCHANGED <<inputVars, schedule, group_subject_hours, day_schedule, gi,
                   group, day_group_subjects, items, si, subject_name,
                   subject_data, lesson_hours, emitted>>

\* line 96
BeginDay ==
    /\ pc = "day"
    /\ IsValidDay(week, day)
    /\ day_schedule' = EmptyMap
    /\ gi' = 1
    /\ pc' = "group"
    /\ UNCHANGED <<inputVars, schedule, group_subject_hours, week, day, group,
                   day_group_subjects, items, si, subject_name, subject_data,
                   lesson_hours, emitted>>

\* lines 98-101: next group, its lesson list, the snapshot of its pending dict
BeginGroup ==
    /\ pc = "group"
    /\ gi <= Len(group_subject_hours)
    /\ group' = group_subject_hours[gi].k
    /\ day_group_subjects' = <<>>
    /\ items' = group_subject_hours[gi].v
    /\ si' = 1
    /\ pc' = "subject"
    /\ UNCHANGED <<inputVars, schedule, group_subject_hours, week, day,
                   day_schedule, gi, subject_name, subject_data, lesson_hours,
                   emitted>>

\* line 130
EndDay ==
    /\ pc = "group"
    /\ gi > Len(group_subject_hours)
    /\ schedule' = [schedule EXCEPT ![week] = (day :> day_schedule) @@ @]
    /\ AdvanceDay
    /\ UNCHANGED <<inputVars, group_subject_hours, day_schedule, gi, group,
                   day_group_subjects, items, si, subject_name, subject_data,
                   lesson_hours, emitted>>

\* line 102 false: a pending entry with remaining_hours <= 0
SkipSubject ==
    /\ pc = "subject"
    /\ si <= Len(items)
    /\ ~HasRemaining(items[si].v)
    /\ subject_name' = items[si].k
    /\ subject_data' = items[si].v
    /\ si' = si + 1
    /\ UNCHANGED <<inputVars, pc, schedule, group_subject_hours, week, day,
                   day_schedule, gi, group, day_group_subjects, items,
                   lesson_hours, emitted>>

\* line 110 false: nobody can teach the subject to the group today
NoTeacher ==
    /\ pc = "subject"
    /\ si <= Len(items)
    /\ HasRemaining(items[si].v)
    /\ AvailableTeachers(items[si].k, group, day) = <<>>
    /\ subject_name' = items[si].k
    /\ subject_data' = items[si].v
    /\ si' = si + 1
    /\ UNCHANGED <<inputVars, pc, schedule, group_subject_hours, week, day,
                   day_schedule, gi, group, day_group_subjects, items,
                   lesson_hours, emitted>>

\* lines 111-126: the snapshot entry is the dict's own record (each name occurs
\* once in the snapshot, so nothing has changed it since line 101)
Lesson ==
    /\ pc = "subject"
    /\ si <= Len(items)
    /\ HasRemaining(items[si].v)
    /\ AvailableTeachers(items[si].k, group, day) # <<>>
    /\ LET name == items[si].k
           data == items[si].v
           teacher == FirstTeacher(AvailableTeachers(name, group, day))
           hours == LessonHours(data)
           after == [data EXCEPT !.remaining_hours = @ - hours]
           info == group_subject_hours[gi].v
       IN /\ day_group_subjects' =
                Append(day_group_subjects,
                       [group |-> group, subject |-> name,
                        teacher |-> teacher.name, semester |-> data.semester])
          /\ emitted' =
                Append(emitted,
                       [week |-> week, day |-> day, group |-> group,
                        subject |-> name, teacher |-> teacher.name,
                        lesson_hours |-> hours])
          /\ lesson_hours' = hours
          /\ subject_name' = name
          /\ subject_data' = after
          /\ group_subject_hours' =
                [group_subject_hours EXCEPT ![gi].v =
                    IF Finished(after) THEN DictDel(info, name)
                    ELSE DictPut(info, name, after)]
    /\ si' = si + 1
    /\ UNCHANGED <<inputVars, pc, schedule, week, day, day_schedule, gi, group,
                   items>>

\* line 128
EndGroup ==
    /\ pc = "subject"
    /\ si > Len(items)
    /\ day_schedule' = (group :> day_group_subjects) @@ day_schedule
    /\ gi' = gi + 1
    /\ pc' = "group"
    /\ UNCHANGED <<inputVars, schedule, group_subject_hours, week, day, group,
                   day_group_subjects, items, si, subject_name, subject_data,
                   lesson_hours, emitted>>

Next ==
    \/ SetupHours
    \/ RaiseZeroDivision
    \/ NextWeek
    \/ Return
    \/ SkipDay
    \/ BeginDay
    \/ BeginGroup
    \/ EndDay
    \/ SkipSubject
    \/ NoTeacher
    \/ Lesson
    \/ EndGroup

Spec == Init /\ [][Next]_vars

----------------------------------------------------------------------------
(* Vocabulary of the properties *)

\* the (group, subject) pairs of the run, by name
Pairs ==
    UNION {{<<subjects[i].groups[j], subjects[i].name>> :
                j \in DOMAIN subjects[i].groups} : i \in DOMAIN subjects}

\* the hour quota declared for a pair: that of its Subject record (of the last
\* one, when a repeated group name gives the pair several)
DeclaredTotal(g, s) ==
    LET idx == {i \in DOMAIN subjects :
                    subjects[i].name = s /\ InList(g, subjects[i].groups)}
        last == CHOOSE i \in idx : \A j \in idx : j <= i
    IN subjects[last].total_hours

\* the lessons emitted so far for a pair, as positions of the history
LessonsOf(g, s) ==
    {i \in DOMAIN emitted : emitted[i].group = g /\ emitted[i].subject = s}

RECURSIVE SumOver(_)
SumOver(I) ==
    IF I = {} THEN 0
    ELSE LET i == CHOOSE x \in I : TRUE
         IN emitted[i].lesson_hours + SumOver(I \ {i})

\* hours scheduled so far for a pair
ScheduledHours(g, s) == SumOver(LessonsOf(g, s))

\* the pair is in its group's pending dict
Pending(g, s) ==
    /\ DictHas(group_subject_hours, g)
    /\ DictHas(DictGet(group_subject_hours, g), s)

State(g, s) == DictGet(DictGet(group_subject_hours, g), s)

\* some teacher of the list can teach s to g on weekday d
SomeTeacher(g, s, d) ==
    \E i \in DOMAIN teachers :
        /\ teachers[i].subject = s
        /\ \E j \in DOMAIN teachers[i].groups : teachers[i].groups[j] = g
        /\ \/ Len(teachers[i].preferred_days) = 0
           \/ \E j \in DOMAIN teachers[i].preferred_days :
                  teachers[i].preferred_days[j] = d

\* the non-blackout (week, day) pairs of the term with a teacher for the pair
TeachableDays(g, s) ==
    {c \in (0..(weeks_per_semester - 1)) \X (0..(DaysPerWeek - 1)) :
        c \notin practice_days /\ SomeTeacher(g, s, c[2])}

\* lessons a quota of total >= 0 hours needs at the weekly rate of the term
LessonsNeeded(total) ==
    LET hpw == IF weeks_per_semester >= 1 /\ total > weeks_per_semester
               THEN CHOOSE h \in 1..total :
                        h * weeks_per_semester >= total
                        /\ (h - 1) * weeks_per_semester < total
               ELSE 1
    IN CHOOSE n \in 0..total : n * hpw >= total /\ (n - 1) * hpw < total

\* the lesson records placed so far, with their place: those of the schedule
\* and those of the day being built
Placed ==
    UNION {UNION {UNION {
        {[week |-> w, day |-> d, group |-> g, lesson |-> schedule[w][d][g][i]] :
            i \in DOMAIN schedule[w][d][g]} :
        g \in DOMAIN schedule[w][d]} :
        d \in DOMAIN schedule[w]} :
        w \in DOMAIN schedule}
    \cup
    UNION {
        {[week |-> week, day |-> day, group |-> g, lesson |-> day_schedule[g][i]] :
            i \in DOMAIN day_schedule[g]} :
        g \in {x \in DOMAIN day_schedule : pc \in {"group", "subject"}}}
    \cup
    {[week |-> week, day |-> day, group |-> group, lesson |-> day_group_subjects[i]] :
        i \in {j \in DOMAIN day_group_subjects : pc = "subject"}}

\* the lesson lists built so far, with their place: schedule[week][day][group]
\* and the lists of the day being built
PlacedLists ==
    UNION {UNION {
        {[week |-> w, day |-> d, group |-> g, lessons |-> schedule[w][d][g]] :
            g \in DOMAIN schedule[w][d]} :
        d \in DOMAIN schedule[w]} :
        w \in DOMAIN schedule}
    \cup
    {[week |-> week, day |-> day, group |-> g, lessons |-> day_schedule[g]] :
        g \in {x \in DOMAIN day_schedule : pc \in {"group", "subject"}}}
    \cup
    {[week |-> week, day |-> day, group |-> group, lessons |-> day_group_subjects] :
        x \in {y \in {1} : pc = "subject"}}

TeacherNamed(n) == teachers[CHOOSE i \in DOMAIN teachers : teachers[i].name = n]

----------------------------------------------------------------------------
(* Properties *)

\* C1: at every point of the run, the hours scheduled so far for a (group,
\* subject) pair with a quota >= 0 are at most the quota.
C1_WithinQuotaNow ==
    \A p \in Pairs :
        DeclaredTotal(p[1], p[2]) >= 0
            => ScheduledHours(p[1], p[2]) <= DeclaredTotal(p[1], p[2])

\* C1: in every state of the run the hours scheduled for a pair with a quota
\* >= 0 are at most the quota.
C1_HoursWithinQuota == []C1_WithinQuotaNow

\* a pair was given a full weekly block and then a shorter last one, and its
\* hours add up to the quota
C1_Witness ==
    \E p \in Pairs :
        /\ ScheduledHours(p[1], p[2]) = DeclaredTotal(p[1], p[2])
        /\ \E i, j \in LessonsOf(p[1], p[2]) :
              i < j /\ emitted[j].lesson_hours < emitted[i].lesson_hours

\* C2: at the end of the run a pair with a quota > 0 that had a teacher on at
\* least ceil(total_hours / hours_per_week) non-blackout days has exactly its
\* quota scheduled and has left the pending dict.
C2_QuotaMetWhenEnoughDays ==
    pc = "done" =>
        \A p \in Pairs :
            LET total == DeclaredTotal(p[1], p[2])
            IN (/\ total > 0
                /\ weeks_per_semester >= 1
                /\ Cardinality(TeachableDays(p[1], p[2])) >= LessonsNeeded(total))
               => /\ ScheduledHours(p[1], p[2]) = total
                  /\ ~Pending(p[1], p[2])

\* a run with a blackout day ended, and a pair that needed several lessons had
\* exactly as many teachable days as it needed
C2_Witness ==
    /\ pc = "done"
    /\ practice_days # {}
    /\ \E p \in Pairs :
          /\ DeclaredTotal(p[1], p[2]) > 1
          /\ LessonsNeeded(DeclaredTotal(p[1], p[2])) > 1
          /\ Cardinality(TeachableDays(p[1], p[2]))
                = LessonsNeeded(DeclaredTotal(p[1], p[2]))
          /\ ScheduledHours(p[1], p[2]) = DeclaredTotal(p[1], p[2])

\* C3, as claimed: a pair ends the run short of its quota only if no teacher
\* matched on any non-blackout day of the term.
C3_ShortOnlyIfNeverTeachable ==
    pc = "done" =>
        \A p \in Pairs :
            (/\ DeclaredTotal(p[1], p[2]) >= 0
             /\ ScheduledHours(p[1], p[2]) < DeclaredTotal(p[1], p[2]))
            => TeachableDays(p[1], p[2]) = {}

\* C3, amended: a pair ends the run short of its quota only if it got a lesson
\* on every non-blackout day with a teacher and those days are fewer than
\* ceil(total_hours / hours_per_week).
C3_ShortOnlyIfTooFewDays ==
    pc = "done" =>
        \A p \in Pairs :
            LET total == DeclaredTotal(p[1], p[2])
            IN (total >= 0 /\ ScheduledHours(p[1], p[2]) < total)
               => /\ \A c \in TeachableDays(p[1], p[2]) :
                        \E i \in LessonsOf(p[1], p[2]) :
                            emitted[i].week = c[1] /\ emitted[i].day = c[2]
                  /\ Cardinality(TeachableDays(p[1], p[2])) < LessonsNeeded(total)

\* a pair ended short although it had lessons
C3_Witness ==
    /\ pc = "done"
    /\ \E p \in Pairs :
          /\ ScheduledHours(p[1], p[2]) < DeclaredTotal(p[1], p[2])
          /\ LessonsOf(p[1], p[2]) # {}

\* C4: the teacher of every lesson record teaches the record's subject, has
\* the group in groups, and has no preferred day or the day of the lesson
\* among them.
C4_TeacherEligible ==
    \A r \in Placed :
        LET t == TeacherNamed(r.lesson.teacher)
        IN /\ \E i \in DOMAIN teachers : teachers[i].name = r.lesson.teacher
           /\ t.subject = r.lesson.subject
           /\ r.lesson.group = r.group
           /\ \E j \in DOMAIN t.groups : t.groups[j] = r.group
           /\ \/ Len(t.preferred_days) = 0
              \/ \E j \in DOMAIN t.preferred_days : t.preferred_days[j] = r.day

\* a returned schedule holds a lesson of a teacher with preferred days, whose
\* subject was pending for the group on a day the teacher does not prefer
C4_Witness ==
    /\ pc = "done"
    /\ \E r \in Placed :
          /\ TeacherNamed(r.lesson.teacher).preferred_days # <<>>
          /\ \E d \in DOMAIN schedule[r.week] :
                /\ d < r.day
                /\ ~InList(d, TeacherNamed(r.lesson.teacher).preferred_days)
                /\ ~SomeTeacher(r.group, r.lesson.subject, d)

\* C5: no lesson record is placed on a (week, day) of practice_days.
C5_NoLessonOnBlackout ==
    \A r \in Placed : <<r.week, r.day>> \notin practice_days

\* a blackout day was skipped while a pair with a teacher for that weekday was
\* pending, and the pair got its lesson on a later day
C5_Witness ==
    \E c \in practice_days :
        \E i \in DOMAIN emitted :
            /\ SomeTeacher(emitted[i].group, emitted[i].subject, c[2])
            /\ \/ emitted[i].week > c[1]
               \/ emitted[i].week = c[1] /\ emitted[i].day > c[2]
            /\ \A j \in LessonsOf(emitted[i].group, emitted[i].subject) : j >= i

\* C6: every lesson of a pair was emitted while the pair had hours left, so
\* none follows the moment its remaining_hours reached <= 0; what remains of a
\* pending pair is its quota less the hours scheduled, and a pair that left
\* the pending dict has its quota scheduled.
C6_HoursLeftAtEveryLesson ==
    /\ \A i \in DOMAIN emitted :
          LET g == emitted[i].group
              s == emitted[i].subject
          IN SumOver({j \in LessonsOf(g, s) : j < i}) < DeclaredTotal(g, s)
    /\ pc \notin {"start", "raised"} =>
          \A p \in Pairs :
              IF Pending(p[1], p[2])
              THEN State(p[1], p[2]).remaining_hours
                      = DeclaredTotal(p[1], p[2]) - ScheduledHours(p[1], p[2])
              ELSE ScheduledHours(p[1], p[2]) >= DeclaredTotal(p[1], p[2])

\* C6: in every state of the run, no lesson of a pair follows the moment its
\* remaining_hours reached <= 0.
C6_NoLessonAfterFinished == []C6_HoursLeftAtEveryLesson

\* the run ended, and a pair that was finished earlier had a teacher on a later
\* non-blackout day
C6_Witness ==
    /\ pc = "done"
    /\ \E p \in Pairs :
          /\ DeclaredTotal(p[1], p[2]) > 0
          /\ ~Pending(p[1], p[2])
          /\ \E c \in TeachableDays(p[1], p[2]) :
                \A i \in LessonsOf(p[1], p[2]) :
                    \/ emitted[i].week < c[1]
                    \/ emitted[i].week = c[1] /\ emitted[i].day < c[2]

\* C7, as claimed: generate_schedule never raises.
C7_NeverAborts == pc # "raised"

\* C8 (state part): for a quota >= 0, remaining_hours is never negative, never
\* above the quota, and equal to the quota until the pair's first lesson.
C8_RemainingInRange ==
    /\ pc \notin {"start", "raised"} =>
          \A p \in Pairs :
              DeclaredTotal(p[1], p[2]) >= 0 =>
                  /\ Pending(p[1], p[2]) =>
                        /\ State(p[1], p[2]).remaining_hours >= 0
                        /\ State(p[1], p[2]).remaining_hours <= DeclaredTotal(p[1], p[2])
                  /\ LessonsOf(p[1], p[2]) = {} =>
                        /\ Pending(p[1], p[2])
                        /\ State(p[1], p[2]).remaining_hours = DeclaredTotal(p[1], p[2])
    /\ (subject_name # None /\ subject_data.total_hours >= 0)
          => subject_data.remaining_hours >= 0

\* C8 (step part): no step raises the remaining_hours of a pair with a quota
\* >= 0; the record of a pair that leaves the pending dict is the one just
\* decremented, and a pair never comes back.
C8_RemainingStep ==
    pc \notin {"start", "raised"} =>
        \A p \in Pairs :
            DeclaredTotal(p[1], p[2]) >= 0 =>
                IF Pending(p[1], p[2])
                THEN IF Pending(p[1], p[2])'
                     THEN State(p[1], p[2])'.remaining_hours
                              <= State(p[1], p[2]).remaining_hours
                     ELSE /\ group' = p[1]
                          /\ subject_name' = p[2]
                          /\ subject_data'.remaining_hours
                                <= State(p[1], p[2]).remaining_hours
                ELSE ~Pending(p[1], p[2])'

\* C8: remaining_hours starts at the quota, never increases and is never
\* negative.
C8_RemainingMonotone == [](C8_RemainingInRange) /\ [][C8_RemainingStep]_vars

\* a pair's remaining_hours went down in two lessons, the second one shorter
\* than the weekly rate, and reached exactly 0
C8_Witness ==
    /\ pc = "subject"
    /\ subject_name # None
    /\ subject_data.remaining_hours = 0
    /\ subject_data.total_hours > subject_data.hours_per_week
    /\ lesson_hours > 0
    /\ lesson_hours < subject_data.hours_per_week
    /\ ~Pending(group, subject_name)

\* C9: hours_per_week of every working-state is max(1, ceil(total_hours /
\* weeks_per_semester)): at least 1, and above 1 exactly the least integer not
\* below total_hours / weeks_per_semester; it is 5 for (90, 18), 2 for (36, 18)
\* and 1 for (1, 18).
C9_HoursPerWeek ==
    /\ \A i \in DOMAIN group_subject_hours :
          \A j \in DOMAIN group_subject_hours[i].v :
              LET d == group_subject_hours[i].v[j].v
                  w == weeks_per_semester
                  h == d.hours_per_week
                  a == d.total_hours
              IN /\ h >= 1
                 /\ w > 0 => IF h = 1 THEN a <= w
                             ELSE (h - 1) * w < a /\ a <= h * w
                 /\ w < 0 => IF h = 1 THEN a >= w
                             ELSE (h - 1) * w > a /\ a >= h * w
    /\ HoursPerWeek(90, 18) = 5
    /\ HoursPerWeek(36, 18) = 2
    /\ HoursPerWeek(1, 18) = 1

\* working-states of an 18-week term with quotas 90 and 36 have weekly rates 5
\* and 2, and a quota that is no multiple of the term length is rounded up
C9_Witness ==
    /\ weeks_per_semester = 18
    /\ \E i \in DOMAIN group_subject_hours :
          \E j, k \in DOMAIN group_subject_hours[i].v :
              /\ group_subject_hours[i].v[j].v.total_hours = 90
              /\ group_subject_hours[i].v[j].v.hours_per_week = 5
              /\ group_subject_hours[i].v[k].v.total_hours = 36
              /\ group_subject_hours[i].v[k].v.hours_per_week = 2

\* C10: the teacher of every lesson record is the first teacher of the list,
\* in list order, that teaches the subject, has the group and accepts the day.
C10_FirstEligibleTeacher ==
    \A r \in Placed :
        LET ok(i) ==
                /\ teachers[i].subject = r.lesson.subject
                /\ \E j \in DOMAIN teachers[i].groups : teachers[i].groups[j] = r.group
                /\ \/ Len(teachers[i].preferred_days) = 0
                   \/ \E j \in DOMAIN teachers[i].preferred_days :
                          teachers[i].preferred_days[j] = r.day
        IN \E i \in DOMAIN teachers :
              /\ ok(i)
              /\ \A j \in 1..(i - 1) : ~ok(j)
              /\ teachers[i].name = r.lesson.teacher

\* two teachers could take a lesson; the first of the list has it, and has a
\* lesson with another group on the same day too
C10_Witness ==
    \E r, q \in Placed :
        /\ r.week = q.week /\ r.day = q.day /\ r.group # q.group
        /\ r.lesson.teacher = q.lesson.teacher
        /\ r.lesson.teacher = teachers[1].name
        /\ Len(teachers) > 1
        /\ teachers[2].subject = r.lesson.subject
        /\ InList(r.group, teachers[2].groups)
        /\ InList(r.day, teachers[2].preferred_days)

\* C11: no lesson list of a (week, day, group) holds two records of one
\* subject.
C11_NoRepeatedSubject ==
    \A l \in PlacedLists :
        \A i, j \in DOMAIN l.lessons :
            l.lessons[i].subject = l.lessons[j].subject => i = j

\* C11: in every state of the run, no lesson list holds two records of one
\* subject.
C11_OneLessonPerSubjectDay == []C11_NoRepeatedSubject

\* a returned schedule has a day on which a group has lessons of two subjects,
\* one of which it has on another day too
C11_Witness ==
    /\ pc = "done"
    /\ \E l, m \in PlacedLists :
          /\ Len(l.lessons) = 2
          /\ m.group = l.group
          /\ <<m.week, m.day>> # <<l.week, l.day>>
          /\ m.lessons # <<>>
          /\ m.lessons[1].subject = l.lessons[1].subject

\* C12 (step): the step taken at a blackout (week, day) ends that day at once
\* and leaves the working-state, the schedule and the lessons emitted as they
\* were; the run goes on with the following weekday.
C12_BlackoutStep ==
    (pc = "day" /\ <<week, day>> \in practice_days) =>
        /\ pc' \in {"day", "week"}
        /\ group_subject_hours' = group_subject_hours
        /\ emitted' = emitted
        /\ schedule' = schedule
        /\ IF day + 1 < DaysPerWeek
           THEN week' = week /\ day' = day + 1
           ELSE week' = week + 1

\* C12: processing a blackout day changes no pending set and no
\* remaining_hours.
C12_BlackoutChangesNothing == [][C12_BlackoutStep]_vars

\* a blackout day has just been passed while a pair with hours left had a
\* teacher for that weekday
C12_Witness ==
    /\ pc = "day"
    /\ \E c \in practice_days :
          /\ c[1] = week
          /\ day = c[2] + 1
          /\ \E p \in Pairs :
                /\ Pending(p[1], p[2])
                /\ State(p[1], p[2]).remaining_hours > 0
                /\ SomeTeacher(p[1], p[2], c[2])

\* C13, as claimed: for any quota >= 0, a subject of a pending dict has
\* remaining_hours > 0, also at the moment it is examined, so the skip of line
\* 102 is never taken.
C13_PendingHasHoursLeft ==
    /\ pc \notin {"start", "raised"} =>
          \A p \in Pairs :
              (DeclaredTotal(p[1], p[2]) >= 0 /\ Pending(p[1], p[2]))
                  => State(p[1], p[2]).remaining_hours > 0
    /\ (pc = "subject" /\ si <= Len(items) /\ items[si].v.total_hours >= 0)
          => items[si].v.remaining_hours > 0

\* C13, amended: for a quota > 0, a pair is in the pending dict exactly while
\* its scheduled hours are below the quota, with remaining_hours > 0; a subject
\* with a quota > 0 that is examined has remaining_hours > 0.
C13_PositiveQuotaPending ==
    /\ pc \notin {"start", "raised"} =>
          \A p \in Pairs :
              DeclaredTotal(p[1], p[2]) > 0 =>
                  /\ Pending(p[1], p[2])
                        <=> ScheduledHours(p[1], p[2]) < DeclaredTotal(p[1], p[2])
                  /\ Pending(p[1], p[2]) => State(p[1], p[2]).remaining_hours > 0
    /\ (pc = "subject" /\ si <= Len(items) /\ items[si].v.total_hours > 0)
          => items[si].v.remaining_hours > 0

\* C13, amended: in every state of the run, a pair with a quota > 0 is pending
\* exactly while it has hours left.
C13_PendingHasHoursLeftPositiveQuota == []C13_PositiveQuotaPending

\* a subject with hours left is about to be examined after another subject of
\* the same group has been finished and removed
C13_Witness ==
    /\ pc = "subject"
    /\ si <= Len(items)
    /\ items[si].v.total_hours > 0
    /\ \E p \in Pairs :
          /\ p[1] = group
          /\ p[2] # items[si].k
          /\ DeclaredTotal(p[1], p[2]) > 0
          /\ ~Pending(p[1], p[2])

\* (week, day) e comes before (week, day) c
Before(e, c) == e[1] < c[1] \/ (e[1] = c[1] /\ e[2] < c[2])

\* the days on which a group that is alone in the input has its lessons of a
\* subject with quota t: the first ceil(t / hours_per_week) non-blackout days
\* with a teacher for it
SoloLessonDays(g, s, t) ==
    IF t <= 0 THEN {}
    ELSE LET T == TeachableDays(g, s)
         IN {c \in T : Cardinality({e \in T : Before(e, c)}) < LessonsNeeded(t)}

\* what the claim of independent budgets asks of the Group record at position
\* i of the input: its subjects start from its own quota and semester, and at
\* the end it has the lessons it would have alone
OwnBudget(i) ==
    LET g == groups[i].name
        sem == groups[i].current_semester
        offered == groups[i].specialty.subjects_per_semester
    IN \A j \in DOMAIN offered :
          sem \in DOMAIN offered[j].v =>
              LET s == offered[j].k
                  t == offered[j].v[sem]
              IN /\ (pc \notin {"start", "raised"} /\ LessonsOf(g, s) = {}) =>
                        /\ Pending(g, s)
                        /\ State(g, s).total_hours = t
                        /\ State(g, s).remaining_hours = t
                        /\ State(g, s).semester = sem
                 /\ pc = "done" =>
                        {<<emitted[x].week, emitted[x].day>> : x \in LessonsOf(g, s)}
                            = SoloLessonDays(g, s, t)

\* C14, as claimed: every Group record of the input has a budget of its own,
\* whatever other Group records are present.
C14_IndependentBudgets == \A i \in DOMAIN groups : OwnBudget(i)

\* the teachers of the list that teach s to g
TeachersOf(g, s) ==
    {i \in DOMAIN teachers : teachers[i].subject = s /\ InList(g, teachers[i].groups)}

\* every teacher of the pair names preferred days, none of them a weekday of
\* the run
OnlyOffWeekTeachers(g, s) ==
    \A i \in TeachersOf(g, s) :
        /\ teachers[i].preferred_days # <<>>
        /\ \A j \in DOMAIN teachers[i].preferred_days :
               teachers[i].preferred_days[j] \notin 0..(DaysPerWeek - 1)

\* C15: a (group, subject) pair whose teachers all have non-empty preferred
\* days outside the weekdays 0..4 never gets a lesson, and from the setup on
\* it stays pending with remaining_hours equal to total_hours.
C15_UntouchedPair ==
    \A p \in Pairs :
        OnlyOffWeekTeachers(p[1], p[2]) =>
            /\ LessonsOf(p[1], p[2]) = {}
            /\ pc = "done" =>
                   \A l \in Placed :
                       ~(l.lesson.group = p[1] /\ l.lesson.subject = p[2])
            /\ pc \notin {"start", "raised"} =>
                   /\ Pending(p[1], p[2])
                   /\ State(p[1], p[2]).remaining_hours = State(p[1], p[2]).total_hours
                   /\ State(p[1], p[2]).remaining_hours = DeclaredTotal(p[1], p[2])

\* C15: in every state of the run, a pair whose teachers all prefer days
\* outside 0..4 has no lesson and its remaining_hours is its total_hours.
C15_NoLessonWithoutWeekdayTeacher == []C15_UntouchedPair

\* the run has ended, over a term with working days, for a pair with hours to
\* place whose only teacher prefers day 5
C15_Witness ==
    /\ pc = "done"
    /\ \E p \in Pairs :
          /\ TeachersOf(p[1], p[2]) # {}
          /\ OnlyOffWeekTeachers(p[1], p[2])
          /\ DeclaredTotal(p[1], p[2]) > 0
          /\ \E c \in (0..(weeks_per_semester - 1)) \X (0..(DaysPerWeek - 1)) :
                 c \notin practice_days
          /\ \E q \in Pairs : q # p /\ LessonsOf(q[1], q[2]) # {}

\* the input is the scenario of one 72-hour subject over 18 weeks for pair p:
\* no other pair, no blackout day, a teacher for it on every weekday
Scenario72(p) ==
    /\ weeks_per_semester = 18
    /\ practice_days = {}
    /\ Pairs = {p}
    /\ DeclaredTotal(p[1], p[2]) = 72
    /\ \A d \in 0..(DaysPerWeek - 1) : SomeTeacher(p[1], p[2], d)

\* C16: in the scenario of one 72-hour subject over 18 weeks, with a teacher
\* on every weekday and no blackout day, hours_per_week is 4, every lesson
\* takes 4 hours, the lessons fall on the first 18 consecutive weekdays (the
\* i-th on weekday (i-1) mod 5 of week (i-1) div 5), and the pair is finished
\* with its 18th lesson in week 3, after which no lesson follows.
C16_Scenario72Hours ==
    \A p \in Pairs :
        Scenario72(p) =>
            /\ Len(emitted) <= 18
            /\ \A i \in DOMAIN emitted :
                   /\ emitted[i].group = p[1] /\ emitted[i].subject = p[2]
                   /\ emitted[i].lesson_hours = 4
                   /\ emitted[i].week = (i - 1) \div 5
                   /\ emitted[i].day = (i - 1) % 5
            /\ (pc \notin {"start", "raised"} /\ Pending(p[1], p[2])) =>
                   /\ State(p[1], p[2]).hours_per_week = 4
                   /\ State(p[1], p[2]).remaining_hours = 72 - 4 * Len(emitted)
                   /\ State(p[1], p[2]).remaining_hours > 0
            /\ (pc \notin {"start", "raised"} /\ ~Pending(p[1], p[2])) =>
                   /\ Len(emitted) = 18
                   /\ emitted[18].week = 3
                   /\ ScheduledHours(p[1], p[2]) = 72
            /\ pc = "done" =>
                   /\ ~Pending(p[1], p[2])
                   /\ Cardinality(Placed) = 18
                   /\ \A l \in Placed : l.week < 3 \/ (l.week = 3 /\ l.day < 3)

\* the scenario has run to its end: 18 lessons, then 14 weeks without any
C16_Witness ==
    /\ pc = "done"
    /\ \E p \in Pairs : Scenario72(p) /\ Cardinality(LessonsOf(p[1], p[2])) = 18
    /\ DOMAIN schedule = 0..17

\* where subject s enters the pending dict of group g: the position of its
\* first Subject record in the list of line 41
FirstPosition(g, s) ==
    LET idx == {i \in DOMAIN subjects :
                    subjects[i].name = s /\ InList(g, subjects[i].groups)}
    IN CHOOSE i \in idx : \A j \in idx : i <= j

\* the entries among the first n of the group's turn that are due a lesson
\* today: hours left at the start of the turn and a teacher for the day
DueToday(n) ==
    LET Due(e) == e.v.remaining_hours > 0 /\ SomeTeacher(group, e.k, day)
    IN SelectSeq(SubSeq(items, 1, n), Due)

\* C17: in a group's turn on a non-blackout day, the subjects examined so far
\* that were pending with remaining_hours > 0 when the turn began and have a
\* teacher that day have each received exactly one lesson, in their order, also
\* after an earlier subject was removed from the pending dict during the turn;
\* every lesson list of the schedule follows the subjects' insertion order.
C17_EveryDueSubjectGetsItsLesson ==
    /\ pc = "subject" =>
          /\ <<week, day>> \notin practice_days
          /\ si = 1 => items = DictGet(group_subject_hours, group)
          /\ Len(day_group_subjects) = Len(DueToday(si - 1))
          /\ \A i \in DOMAIN day_group_subjects :
                 /\ day_group_subjects[i].subject = DueToday(si - 1)[i].k
                 /\ day_group_subjects[i].group = group
    /\ \A l \in PlacedLists :
          \A i, j \in DOMAIN l.lessons :
              i < j => FirstPosition(l.group, l.lessons[i].subject)
                           < FirstPosition(l.group, l.lessons[j].subject)

\* a group's turn is over with two lessons, the first of which finished its
\* subject and removed it from the pending dict before the second was examined
C17_Witness ==
    /\ pc = "subject"
    /\ si > Len(items)
    /\ Len(day_group_subjects) = 2
    /\ ~Pending(group, day_group_subjects[1].subject)
    /\ Pending(group, day_group_subjects[2].subject)

\* a step taken on a non-blackout day on which the pending pair p has no
\* teacher leaves the pair as it is
C18_Step(p) ==
    ( /\ pc \in {"day", "group", "subject"}
      /\ <<week, day>> \notin practice_days
      /\ Pending(p[1], p[2])
      /\ ~SomeTeacher(p[1], p[2], day) ) =>
        /\ Pending(p[1], p[2])'
        /\ State(p[1], p[2])' = State(p[1], p[2])
        /\ LessonsOf(p[1], p[2])' = LessonsOf(p[1], p[2])
        /\ \A l \in Placed' :
               ~(l.week = week /\ l.day = day
                 /\ l.lesson.group = p[1] /\ l.lesson.subject = p[2])

\* C18: on a non-blackout day on which a pending (group, subject) pair has no
\* eligible teacher, no step of that day emits a lesson for the pair, changes
\* its remaining_hours or takes it out of the pending dict.
C18_NoTeacherChangesNothing == [][\A p \in Pairs : C18_Step(p)]_vars

\* a subject with hours left has just been passed over for want of a teacher,
\* in a run that has placed lessons before
C18_Witness ==
    /\ pc = "subject"
    /\ si > 1
    /\ subject_name = items[si - 1].k
    /\ items[si - 1].v.remaining_hours > 0
    /\ ~SomeTeacher(group, subject_name, day)
    /\ Pending(group, subject_name)
    /\ State(group, subject_name).remaining_hours = items[si - 1].v.remaining_hours
    /\ emitted # <<>>

\* the group names that have at least one Subject record
GroupsWithSubjects == {p[1] : p \in Pairs}

\* the lessons emitted for group g on day d of week w
LessonsOn(w, d, g) ==
    {i \in DOMAIN emitted :
        emitted[i].week = w /\ emitted[i].day = d /\ emitted[i].group = g}

\* C19: the returned schedule has an entry for every week 0..weeks-1, also for
\* a week that is blackout throughout (its entry is then empty); a week's entry
\* has exactly the non-blackout weekdays as keys; a day's entry has exactly the
\* groups with a Subject record as keys, each holding the list of that day's
\* lessons of the group, empty when there is none.
C19_ScheduleShape ==
    /\ DOMAIN schedule \subseteq 0..(weeks_per_semester - 1)
    /\ pc = "done" =>
          /\ DOMAIN schedule = 0..(weeks_per_semester - 1)
          /\ \A w \in DOMAIN schedule :
                /\ DOMAIN schedule[w] =
                       {d \in 0..(DaysPerWeek - 1) : <<w, d>> \notin practice_days}
                /\ \A d \in DOMAIN schedule[w] :
                      /\ DOMAIN schedule[w][d] = GroupsWithSubjects
                      /\ \A g \in DOMAIN schedule[w][d] :
                            /\ DOMAIN schedule[w][d][g] =
                                   1..Cardinality(LessonsOn(w, d, g))
                            /\ \A i \in DOMAIN schedule[w][d][g] :
                                   schedule[w][d][g][i].group = g

\* a returned schedule with a week that is blackout throughout, and in another
\* week a day on which one group has a lesson and a day on which it has none
C19_Witness ==
    /\ pc = "done"
    /\ \E w \in DOMAIN schedule : DOMAIN schedule[w] = {}
    /\ \E w \in DOMAIN schedule :
          \E d, e \in DOMAIN schedule[w] :
              \E g \in DOMAIN schedule[w][d] :
                  schedule[w][d][g] # <<>> /\ schedule[w][e][g] = <<>>
    /\ \E i \in DOMAIN groups : groups[i].name \notin GroupsWithSubjects

\* ceil(total / weeks) floored at 1, for total > 0 and weeks >= 1: the least h
\* with h * weeks >= total
WeeklyRate(total) ==
    CHOOSE h \in 1..total :
        h * weeks_per_semester >= total /\ (h - 1) * weeks_per_semester < total

\* every week of the term has a non-blackout day with a teacher for the pair
TeachableEveryWeek(g, s) ==
    \A w \in 0..(weeks_per_semester - 1) : \E c \in TeachableDays(g, s) : c[1] = w

\* C20: for a pair with total_hours > 0 in a term of at least one week: the
\* pair never has more than ceil(total_hours / hours_per_week) lessons, which
\* is at most weeks_per_semester; every lesson but the last takes exactly
\* hours_per_week hours; and if every week has a non-blackout day with a
\* teacher for the pair, all its hours are placed when the run ends.
C20_LessonsWithinNeed ==
    \A p \in Pairs :
        LET total == DeclaredTotal(p[1], p[2])
            L == LessonsOf(p[1], p[2])
        IN (total > 0 /\ weeks_per_semester >= 1) =>
              LET hpw == WeeklyRate(total)
                  needed == CHOOSE n \in 1..total :
                                n * hpw >= total /\ (n - 1) * hpw < total
              IN /\ Cardinality(L) <= needed
                 /\ needed <= weeks_per_semester
                 /\ \A i \in L :
                        (\E j \in L : j > i) => emitted[i].lesson_hours = hpw
                 /\ \A i \in L : emitted[i].lesson_hours \in 1..hpw
                 /\ (pc = "done" /\ TeachableEveryWeek(p[1], p[2])) =>
                        /\ ~Pending(p[1], p[2])
                        /\ ScheduledHours(p[1], p[2]) = total
                        /\ Cardinality(L) = needed

\* C20: throughout the run a pair with total_hours > 0 never has more lessons
\* than its quota needs at the weekly rate, and with a teachable day in every
\* week it ends the run with all its hours placed.
C20_QuotaFitsTheTerm == []C20_LessonsWithinNeed

\* the run has ended for a pair with a teachable day in each of two or more
\* weeks, whose last lesson is shorter than the ones before
C20_Witness ==
    /\ pc = "done"
    /\ weeks_per_semester >= 2
    /\ \E p \in Pairs :
          /\ DeclaredTotal(p[1], p[2]) > 0
          /\ TeachableEveryWeek(p[1], p[2])
          /\ \E i, j \in LessonsOf(p[1], p[2]) :
                 /\ i < j
                 /\ emitted[j].lesson_hours < emitted[i].lesson_hours
          /\ \E c \in practice_days : SomeTeacher(p[1], p[2], c[2])

====
